---- MODULE Spec2Model ----
(***************************************************************************)
(* Model of "MKV to MP4/mkv_converter.py": the batch loop of main, the     *)
(* recursive hardware-to-software fallback of convert_mkv_to_mp4 and the   *)
(* H.264 level selector.                                                   *)
(*                                                                         *)
(* Abstractions.                                                           *)
(*  - A path is a record [stem, ext]; a stem is a sequence of name parts,  *)
(*    so that "stem + suffix" is the concatenation of sequences.           *)
(*  - A text (stderr of a subprocess, str() of an exception) is the set of *)
(*    the fragments it contains; "x in text" is membership and the empty   *)
(*    string is the empty set.                                             *)
(*  - The external engines (ffmpeg, ffprobe) and the filesystem are the    *)
(*    environment: every outcome they can produce is chosen with \E.       *)
(*  - Once check_ffmpeg passed, ffmpeg and ffprobe can be started: a      *)
(*    subprocess either exits 0 or raises CalledProcessError.              *)
(*                                                                         *)
(* Specifications.  Spec: one execution of main.  FairSpec: the loop of a  *)
(* --batch execution, with weak fairness.  SpecRerun: a --batch execution  *)
(* and further ones over the directory it left.  SpecLevel: the level      *)
(* selector applied to a resolution.  SpecJob: one call of                 *)
(* convert_mkv_to_mp4 statement by statement, with the results of the      *)
(* ffprobe queries and the text of the command line; here ffprobe may be   *)
(* impossible to start.  SpecPrefs: main from its command line to the      *)
(* preferences, with every input() call.                                   *)
(***************************************************************************)
EXTENDS Integers, Sequences, FiniteSets, TLC

\* ---------------------------------------------------------------- bounds
\* The most source files a directory holds.
MaxFiles == 2
\* Depth at which the recursion of convert_mkv_to_mp4 is cut off.
MaxAttempts == 3
\* Number of executions of main over the same directory.
MaxRuns == 2
\* Number of the markers, in the order of the list, that ffmpeg's stderr is
\* drawn from.
MaxMarkers == 2
\* The most answers the user types at the encoder menu.
MaxAnswers == 2

Min(a, b) == IF a < b THEN a ELSE b

Range(s) == { s[i] : i \in DOMAIN s }

\* ------------------------------------------------------------- constants
nvenc_failures ==
  << "10 bit encode not supported",
     "No capable devices found",
     "InitializeEncoder failed",
     "invalid param",
     "Cannot load nvcuda.dll",
     "NVENC not available" >>

\* A diagnostic of ffmpeg that is none of the markers.
OtherDiagnostic == "Invalid data found when processing input"

Encoders == {"nvenc_h264", "nvenc_av1", "cpu"}
Qualities == {"fast", "medium", "high"}
default_suffix == "_converted"

\* ------------------------------------------------------------ file names
\* The source files a directory may hold: two whose names differ in the case
\* of the extension only, and one whose name holds the text of a marker.
Candidates ==
  { [stem |-> <<"a">>, ext |-> "mkv"],
    [stem |-> <<"a">>, ext |-> "MKV"],
    [stem |-> <<"invalid param">>, ext |-> "mkv"] }

\* str.lower() on the extensions that occur.
Lower(ext) == IF ext = "MKV" THEN "mkv" ELSE IF ext = "MP4" THEN "mp4" ELSE ext

\* main: mkv_file.parent / f"{mkv_file.stem}{suffix}.mp4"
OutputFile(mkv_file, sfx) == [stem |-> mkv_file.stem \o <<sfx>>, ext |-> "mp4"]

\* The orders in which os.walk may list a set of files.
Orderings(S) ==
  { s \in [1..Cardinality(S) -> S] : \A i, j \in DOMAIN s : i # j => s[i] # s[j] }

\* find_mkv_files: the entries whose lower-cased name ends with ".mkv".
find_mkv_files(dir) == Orderings({ f \in dir : Lower(f.ext) = "mkv" })

\* ------------------------------------------------------- the environment
\* The texts ffmpeg may leave on stderr when it exits non-zero: nothing, a
\* diagnostic that is no marker, or a diagnostic holding one marker.
StderrTexts ==
  {{}} \cup {{OtherDiagnostic}}
       \cup { {nvenc_failures[i]} : i \in 1..Min(MaxMarkers, Len(nvenc_failures)) }

\* subprocess.run(cmd, capture_output=True, text=True, check=True) on an
\* ffmpeg command: exit 0 with the output file written, or a non-zero exit
\* (CalledProcessError) with some stderr, the output file created or not.
RunFfmpeg ==
  {[exit |-> 0, stderr |-> {}, written |-> TRUE]}
    \cup { [exit |-> 1, stderr |-> t, written |-> w] : t \in StderrTexts, w \in BOOLEAN }

\* ------------------------------------------------- convert_mkv_to_mp4
\* The command line: the parts of it that later code reads.
BuildCommand(input_file, output_file, enc, q) ==
  [input |-> input_file, output |-> output_file, encoder |-> enc, quality |-> q]

\* str(cmd): the list's text holds every argument, the two paths included.
StrCmd(cmd) == {"ffmpeg", "-i", "-y"} \cup Range(cmd.input.stem) \cup Range(cmd.output.stem)

\* str(CalledProcessError): "Command '<cmd>' returned non-zero exit status <n>."
StrCalledProcessError(cmd) == {"Command", "returned non-zero exit status"} \cup StrCmd(cmd)

\* error_msg = str(nvenc_error.stderr) if nvenc_error.stderr else str(nvenc_error)
error_msg(stderr, cmd) == IF stderr # {} THEN stderr ELSE StrCalledProcessError(cmd)

\* encoder.startswith('nvenc')
StartsWithNvenc(enc) == enc \in {"nvenc_h264", "nvenc_av1"}

\* Mutant: the fallback test without "encoder.startswith('nvenc')".
ShouldFallbackAnyEncoder(enc, msg) == \E fail \in Range(nvenc_failures) : fail \in msg

\* encoder.startswith('nvenc') and any(fail in error_msg for fail in nvenc_failures)
ShouldFallback(enc, msg) ==
  StartsWithNvenc(enc) /\ \E fail \in Range(nvenc_failures) : fail \in msg

\* Mutant: the recursive call without its last argument, quality taking the
\* default of the signature.
FallbackJobDefaultQuality(input_file, output_file, q) ==
  [input |-> input_file, output |-> output_file, encoder |-> "cpu", quality |-> "medium"]

\* Line 288, the arguments of the recursive call:
\* convert_mkv_to_mp4(input_file, output_file, 'cpu', quality)
FallbackJob(input_file, output_file, q) ==
  [input |-> input_file, output |-> output_file, encoder |-> "cpu", quality |-> q]

\* Every result convert_mkv_to_mp4 can return: ok is the returned boolean, calls
\* the ffmpeg invocations made, in order, probes the number of ffprobe
\* invocations (three on the source per attempt, one on the output after a
\* success), written whether some invocation created the output file.
RECURSIVE convert_mkv_to_mp4(_, _, _, _, _)
convert_mkv_to_mp4(input_file, output_file, enc, q, attempt) ==
  LET cmd == BuildCommand(input_file, output_file, enc, q)
      Call(o) == [encoder |-> enc, quality |-> q, input |-> input_file,
                  output |-> output_file, exit |-> o.exit, stderr |-> o.stderr]
      One(o) ==
        IF o.exit = 0
        THEN {[ok |-> TRUE, calls |-> <<Call(o)>>, probes |-> 4, written |-> TRUE]}
        ELSE IF ShouldFallback(enc, error_msg(o.stderr, cmd)) /\ attempt < MaxAttempts
             THEN { [ok |-> r.ok, calls |-> <<Call(o)>> \o r.calls,
                     probes |-> 3 + r.probes, written |-> o.written \/ r.written] :
                    r \in LET fb == FallbackJob(input_file, output_file, q)
                          IN convert_mkv_to_mp4(fb.input, fb.output, fb.encoder,
                                                fb.quality, attempt + 1) }
             ELSE {[ok |-> FALSE, calls |-> <<Call(o)>>, probes |-> 3, written |-> o.written]}
  IN UNION { One(o) : o \in RunFfmpeg }

\* -------------------------------------------------------- check_ffmpeg
\* What starting ffmpeg gives: it runs, it is not installed (FileNotFoundError)
\* or it exits non-zero (CalledProcessError).
FfmpegStates == {"ok", "missing", "fails"}

\* Mutant: check_ffmpeg returning True whatever happens.
check_ffmpeg_always_true(ffmpeg_state) == TRUE

\* check_ffmpeg: True when "ffmpeg -version" ran, False on either exception.
check_ffmpeg(ffmpeg_state) == ffmpeg_state = "ok"

\* ------------------------------------------------- check_gpu_encoding
\* What "ffmpeg -encoders" can advertise; nothing when ffmpeg cannot be run.
Advertised(ffmpeg_ok) ==
  IF ffmpeg_ok THEN SUBSET {"h264_nvenc", "av1_nvenc"} ELSE {{}}

check_gpu_encoding(adv) ==
  [nvenc_available |-> "h264_nvenc" \in adv, av1_nvenc_available |-> "av1_nvenc" \in adv]

\* ----------------------------------------------- get_user_preferences
\* The encoder the menu loop accepts for an answer, "" when it asks again.
EncoderChoice(choice, nvenc_available, av1_nvenc_available) ==
  LET max_choice == IF av1_nvenc_available THEN "3" ELSE "2"
  IN IF choice = "" \/ choice = "1" THEN "nvenc_h264"
     ELSE IF choice = "2" /\ av1_nvenc_available THEN "nvenc_av1"
     ELSE IF choice = max_choice \/ (choice = "2" /\ ~av1_nvenc_available) THEN "cpu"
     ELSE ""

MenuAnswers == {"", "1", "2", "3", "4"}
UserSuffixes == {default_suffix, "_ha"}

get_user_preferences(adv) ==
  LET gpu == check_gpu_encoding(adv)
      encoders ==
        IF gpu.nvenc_available
        THEN { EncoderChoice(c, gpu.nvenc_available, gpu.av1_nvenc_available) :
               c \in MenuAnswers } \ {""}
        ELSE {"cpu"}
  IN { [encoder |-> e, quality |-> q, suffix |-> s, delete_original |-> d] :
       e \in encoders, q \in Qualities, s \in UserSuffixes, d \in BOOLEAN }

\* main, --batch: the fixed defaults.
BatchPreferences(adv) ==
  [encoder |-> IF check_gpu_encoding(adv).nvenc_available THEN "nvenc_h264" ELSE "cpu",
   quality |-> "medium", suffix |-> default_suffix, delete_original |-> FALSE]

\* Lines 332-336 and 353: the numbered options the menu prints.
MenuShown(nvenc_available, av1_nvenc_available) ==
  IF nvenc_available
  THEN {[number |-> "1", encoder |-> "nvenc_h264"], [number |-> "3", encoder |-> "cpu"]}
         \cup (IF av1_nvenc_available
               THEN {[number |-> "2", encoder |-> "nvenc_av1"]} ELSE {})
  ELSE {[number |-> "1", encoder |-> "cpu"]}

\* Lines 338-355: how many of the typed answers the menu reads, which is up
\* to the first it accepts; without h264_nvenc one "Press Enter" is read.
AnswersRead(typed, nvenc_available, av1_nvenc_available) ==
  IF nvenc_available
  THEN CHOOSE i \in DOMAIN typed :
         /\ EncoderChoice(typed[i], nvenc_available, av1_nvenc_available) # ""
         /\ \A j \in 1..(i - 1) :
              EncoderChoice(typed[j], nvenc_available, av1_nvenc_available) = ""
  ELSE 1

\* The encoder the menu ends with.
MenuEncoder(typed, nvenc_available, av1_nvenc_available) ==
  IF nvenc_available
  THEN EncoderChoice(typed[AnswersRead(typed, nvenc_available, av1_nvenc_available)],
                     nvenc_available, av1_nvenc_available)
  ELSE "cpu"

\* What the user may type at the menu: up to MaxAnswers answers, one of which
\* the menu accepts.
TypedAnswers(nvenc_available, av1_nvenc_available) ==
  { t \in UNION { [1..n -> MenuAnswers] : n \in 1..MaxAnswers } :
      nvenc_available =>
        \E i \in DOMAIN t :
          EncoderChoice(t[i], nvenc_available, av1_nvenc_available) # "" }

\* The input() calls of get_user_preferences, in order.
PreferencePrompts(typed, nvenc_available, av1_nvenc_available) ==
  (IF nvenc_available
   THEN [i \in 1..AnswersRead(typed, nvenc_available, av1_nvenc_available) |-> "encoding"]
   ELSE <<"continue">>) \o <<"quality", "suffix", "delete">>

\* ------------------------------------------ get_appropriate_h264_level
\* Python's None, for a width or height the probe could not give.
None == -1

Level13MaxPixels == 152064
Level30MaxPixels == 345600
Level31MaxPixels == 921600
Level40MaxPixels == 2073600
Level51MaxPixels == 8294400

\* Mutant: an unknown resolution taken for the smallest one.
get_appropriate_h264_level_unknown_is_small(w, h) ==
  IF w = None \/ h = None THEN "1.3"
  ELSE LET pixels == w * h
       IN IF pixels <= Level13MaxPixels THEN "1.3"
          ELSE IF pixels <= Level30MaxPixels THEN "3.0"
          ELSE IF pixels <= Level31MaxPixels THEN "3.1"
          ELSE IF pixels <= Level40MaxPixels THEN "4.0"
          ELSE IF pixels <= Level51MaxPixels THEN "5.1"
          ELSE "5.2"

\* Mutant: the first comparison strict, "pixels < 152064".
get_appropriate_h264_level_strict(w, h) ==
  IF w = None \/ h = None THEN "4.0"
  ELSE LET pixels == w * h
       IN IF pixels < Level13MaxPixels THEN "1.3"
          ELSE IF pixels <= Level30MaxPixels THEN "3.0"
          ELSE IF pixels <= Level31MaxPixels THEN "3.1"
          ELSE IF pixels <= Level40MaxPixels THEN "4.0"
          ELSE IF pixels <= Level51MaxPixels THEN "5.1"
          ELSE "5.2"

get_appropriate_h264_level(w, h) ==
  IF w = None \/ h = None THEN "4.0"
  ELSE LET pixels == w * h
       IN IF pixels <= Level13MaxPixels THEN "1.3"
          ELSE IF pixels <= Level30MaxPixels THEN "3.0"
          ELSE IF pixels <= Level31MaxPixels THEN "3.1"
          ELSE IF pixels <= Level40MaxPixels THEN "4.0"
          ELSE IF pixels <= Level51MaxPixels THEN "5.1"
          ELSE "5.2"

\* -------------------------------------------------------- ffprobe queries
\* The standard output of "ffprobe ... stream=pix_fmt", stripped.
PixFmtOutputs == {"yuv420p", "yuv420p10le", "yuv422p10be", "p010le", "yuv444p12le", ""}

\* fmt in pix_fmt: which of the four markers of line 84 a pixel format holds.
TenBitMarkersIn(pix_fmt) ==
  CASE pix_fmt = "yuv420p10le" -> {"10le", "yuv420p10"}
    [] pix_fmt = "yuv422p10be" -> {"10be"}
    [] pix_fmt = "p010le" -> {"p010", "10le"}
    [] OTHER -> {}

\* One field of "width,height" after split(','): digits that int() parses,
\* or text on which int() raises ValueError.
Digits(n) == [digits |-> TRUE, val |-> n]
NotANumber == [digits |-> FALSE, val |-> 0]

\* The standard output of "ffprobe ... stream=width,height", stripped and
\* split at the commas; no output at all splits into one empty field.
ResolutionOutputs ==
  { <<Digits(1920), Digits(1080)>>, <<Digits(3840), Digits(2160)>>,
    <<NotANumber>>, <<NotANumber, NotANumber>>, <<Digits(640), NotANumber>>,
    <<Digits(640), Digits(480), Digits(640)>> }

\* The standard output of "ffprobe ... -select_streams a", stripped and
\* split into lines.
AudioOutputs ==
  { <<>>, <<"1,aac,2,48000,">>, <<"1,ac3,6,48000,640000", "2,aac,2,44100,128000">>,
    <<"1,dts,6,48000,1536000", "", "2,aac,2,48000,">> }

\* What one run of ffprobe gives: exit 0 and its output, or a non-zero exit,
\* which check=True turns into CalledProcessError.
ProbeRuns(outputs, nothing) ==
  { [exit |-> 0, stdout |-> o] : o \in outputs } \cup {[exit |-> 1, stdout |-> nothing]}

get_video_bit_depth(p) ==
  IF p.exit # 0 THEN [is_10bit |-> FALSE, pix_fmt |-> "unknown"]
  ELSE [is_10bit |-> \E fmt \in {"10le", "10be", "p010", "yuv420p10"} :
                       fmt \in TenBitMarkersIn(p.stdout),
        pix_fmt |-> p.stdout]

get_video_resolution(p) ==
  IF p.exit # 0 THEN <<None, None>>
  ELSE LET dimensions == p.stdout
       IN IF Len(dimensions) = 2
          THEN IF dimensions[1].digits /\ dimensions[2].digits
               THEN <<dimensions[1].val, dimensions[2].val>>
               ELSE <<None, None>>
          ELSE <<None, None>>

get_audio_streams(p) ==
  IF p.exit # 0 THEN <<>> ELSE SelectSeq(p.stdout, LAMBDA s : s # "")

\* ------------------------------------- convert_mkv_to_mp4: the command line
\* Mutant: the software branch without "if is_10bit: -pix_fmt yuv420p".
VideoArgsSoftwareKeepsDepth(enc, is_10bit, level) ==
  IF enc = "nvenc_h264"
  THEN IF is_10bit
       THEN <<"-c:v", "h264_nvenc", "-profile:v", "high", "-level", level,
              "-pix_fmt", "yuv420p", "-preset", "p4", "-tune", "hq">>
       ELSE <<"-c:v", "h264_nvenc", "-profile:v", "high", "-level", level,
              "-preset", "p4", "-tune", "hq">>
  ELSE IF enc = "nvenc_av1"
  THEN <<"-c:v", "av1_nvenc", "-preset", "p4", "-tune", "hq">>
         \o (IF is_10bit THEN <<"-pix_fmt", "yuv420p10le">> ELSE <<>>)
  ELSE <<"-c:v", "libx264", "-profile:v", "high", "-level", level>>

\* Lines 156-218, the video options.
VideoArgs(enc, is_10bit, level) ==
  IF enc = "nvenc_h264"
  THEN IF is_10bit
       THEN <<"-c:v", "h264_nvenc", "-profile:v", "high", "-level", level,
              "-pix_fmt", "yuv420p", "-preset", "p4", "-tune", "hq">>
       ELSE <<"-c:v", "h264_nvenc", "-profile:v", "high", "-level", level,
              "-preset", "p4", "-tune", "hq">>
  ELSE IF enc = "nvenc_av1"
  THEN <<"-c:v", "av1_nvenc", "-preset", "p4", "-tune", "hq">>
         \o (IF is_10bit THEN <<"-pix_fmt", "yuv420p10le">> ELSE <<>>)
  ELSE <<"-c:v", "libx264", "-profile:v", "high", "-level", level>>
         \o (IF is_10bit THEN <<"-pix_fmt", "yuv420p">> ELSE <<>>)

\* Mutant: one table for both hardware encoders.
quality_settings_one_nvenc_table(enc) ==
  IF enc \in {"nvenc_h264", "nvenc_av1"}
  THEN [fast |-> <<"-cq", "28", "-b:v", "0">>,
        medium |-> <<"-cq", "23", "-b:v", "0">>,
        high |-> <<"-cq", "18", "-b:v", "0">>]
  ELSE [fast |-> <<"-preset", "fast", "-crf", "28">>,
        medium |-> <<"-preset", "medium", "-crf", "23">>,
        high |-> <<"-preset", "slow", "-crf", "18">>]

\* The quality_settings table the branch of the encoder defines.
quality_settings(enc) ==
  IF enc = "nvenc_h264"
  THEN [fast |-> <<"-cq", "28", "-b:v", "0">>,
        medium |-> <<"-cq", "23", "-b:v", "0">>,
        high |-> <<"-cq", "18", "-b:v", "0">>]
  ELSE IF enc = "nvenc_av1"
  THEN [fast |-> <<"-cq", "32", "-b:v", "0">>,
        medium |-> <<"-cq", "28", "-b:v", "0">>,
        high |-> <<"-cq", "24", "-b:v", "0">>]
  ELSE [fast |-> <<"-preset", "fast", "-crf", "28">>,
        medium |-> <<"-preset", "medium", "-crf", "23">>,
        high |-> <<"-preset", "slow", "-crf", "18">>]

\* quality_settings.get(quality, quality_settings['medium'])
QualityArgs(enc, q) ==
  IF q \in DOMAIN quality_settings(enc) THEN quality_settings(enc)[q]
  ELSE quality_settings(enc)["medium"]

\* Lines 224-231.
AudioArgs ==
  <<"-c:a", "aac", "-b:a", "192k", "-ac", "2", "-ar", "48000",
    "-movflags", "+faststart", "-map", "0:v:0">>

\* Mutant: the first audio stream mapped whether or not one was found.
AudioMapArgsAlwaysFirst(audio_streams) == <<"-map", "0:a:0">>

\* Lines 234-240.
AudioMapArgs(audio_streams) ==
  IF audio_streams # <<>> THEN <<"-map", "0:a:0">> ELSE <<"-map", "0:a?">>

\* Mutant: the audio settings left out for a source without audio streams.
OptionsAudioBySource(enc, q, is_10bit, level, audio_streams) ==
  VideoArgs(enc, is_10bit, level) \o QualityArgs(enc, q)
    \o (IF audio_streams # <<>> THEN AudioArgs ELSE <<"-map", "0:v:0">>)
    \o AudioMapArgs(audio_streams)

\* The arguments between "-i <input>" and "-y <output>".
Options(enc, q, is_10bit, level, audio_streams) ==
  VideoArgs(enc, is_10bit, level) \o QualityArgs(enc, q) \o AudioArgs
    \o AudioMapArgs(audio_streams)

\* ------------------------------------------------------------------ state
VARIABLES
  pc,               \* where main is: "start", "loop", "done", "crashed"
  run,              \* which execution of main over the directory this is
  files,            \* the directory: the paths that exist
  batch,            \* args.batch
  encoder, quality, suffix, delete_original,   \* main's preferences
  mkv_files,        \* the list find_mkv_files returned
  idx,              \* how many entries of mkv_files the loop has been through
  converted_count, failed_count,
  log,              \* per file reached, what the log says became of it
  calls,            \* the ffmpeg invocations made for the file reached last
  probes,           \* the number of ffprobe invocations for that file
  summary,          \* the tallies of the closing log lines, as (name, value)
  exit_code,        \* what main returned, -1 while it runs
  prev,             \* what the previous execution over the directory left
  width, height,    \* arguments of get_appropriate_h264_level
  h264_level,       \* its result, "" before the call
  ffprobe_found,    \* whether the ffprobe program can be started
  pix_probe, res_probe, audio_probe,   \* what the three ffprobe queries give
  attempt,          \* which call of convert_mkv_to_mp4 on the file this is
  is_10bit, pix_fmt, audio_streams,    \* locals of convert_mkv_to_mp4
  cmd,              \* its command line between the two paths
  out_probe,        \* what the ffprobe query of the output file gives
  output_audio_streams,   \* local of convert_mkv_to_mp4, line 262
  warned,           \* "Output file may not have audio streams!" was logged
  ffmpeg,           \* what starting the ffmpeg program gives
  has_input_dir,    \* whether the command line names the directory
  encoders_out,     \* the encoders "ffmpeg -encoders" lists, of the two looked for
  typed,            \* what the user types at the encoder menu
  menu,             \* the numbered options the menu printed
  prompts           \* the input() calls made, in order

prefs == <<batch, encoder, quality, suffix, delete_original>>
level_vars == <<width, height, h264_level>>
probe_env == <<ffprobe_found, pix_probe, res_probe, audio_probe>>
verify_vars == <<out_probe, output_audio_streams, warned>>
job_vars == <<probe_env, attempt, is_10bit, pix_fmt, audio_streams, cmd, verify_vars>>
menu_vars == <<has_input_dir, encoders_out, typed, menu, prompts>>
vars == <<pc, run, files, prefs, mkv_files, idx, converted_count, failed_count,
          log, calls, probes, summary, exit_code, prev, level_vars, job_vars, ffmpeg, menu_vars>>

NoPrev == [ran |-> FALSE, log |-> <<>>, mkv_files |-> <<>>]

NoLevel == width = None /\ height = None /\ h264_level = ""

\* The prompts of main are not followed one by one.
NoMenu ==
  /\ has_input_dir = TRUE /\ encoders_out = {} /\ typed = <<>>
  /\ menu = {} /\ prompts = <<>>

\* The output file has not been queried.
NoVerify ==
  /\ out_probe = [exit |-> 1, stdout |-> <<>>]
  /\ output_audio_streams = <<>> /\ warned = FALSE

\* No call of convert_mkv_to_mp4 is followed statement by statement.
NoJob ==
  /\ ffprobe_found = TRUE
  /\ pix_probe = [exit |-> 1, stdout |-> ""]
  /\ res_probe = [exit |-> 1, stdout |-> <<>>]
  /\ audio_probe = [exit |-> 1, stdout |-> <<>>]
  /\ attempt = 0
  /\ is_10bit = FALSE /\ pix_fmt = "" /\ audio_streams = <<>> /\ cmd = <<>>
  /\ NoVerify

\* The locals of main as the interpreter starts it.
Fresh ==
  /\ mkv_files = <<>> /\ idx = 0
  /\ converted_count = 0 /\ failed_count = 0
  /\ log = <<>> /\ calls = <<>> /\ probes = 0
  /\ summary = {} /\ exit_code = -1

\* A directory holds some of the candidate sources and, left by earlier
\* work, some of their outputs.
Directories ==
  { srcs \cup outs : srcs \in { S \in SUBSET Candidates : Cardinality(S) <= MaxFiles },
                     outs \in SUBSET { OutputFile(f, default_suffix) : f \in Candidates } }

Init ==
  /\ pc = "start"
  /\ batch = FALSE /\ encoder = "" /\ quality = "" /\ suffix = ""
  /\ delete_original = FALSE
  /\ Fresh
  /\ run = 1
  /\ prev = NoPrev
  /\ files \in Directories
  /\ NoLevel
  /\ NoJob
  /\ NoMenu
  /\ ffmpeg \in FfmpegStates

\* main returns before the loop.
Return(code) ==
  /\ pc' = "done"
  /\ exit_code' = code
  /\ UNCHANGED <<run, files, prefs, mkv_files, idx, converted_count, failed_count,
                 log, calls, probes, summary, prev, level_vars, job_vars, ffmpeg, menu_vars>>

\* main up to the loop: the directory check, the preferences, check_ffmpeg,
\* find_mkv_files and the "Proceed?" prompt.
Setup ==
  /\ pc = "start"
  /\ \E dir_exists, is_batch \in BOOLEAN :
     \E adv \in Advertised(ffmpeg = "ok") :
       IF ~dir_exists THEN Return(1)
       ELSE \E p \in (IF is_batch THEN {BatchPreferences(adv)}
                                  ELSE get_user_preferences(adv)) :
              IF ~check_ffmpeg(ffmpeg) THEN Return(1)
              ELSE \E found \in find_mkv_files(files) :
                     IF found = <<>> THEN Return(0)
                     ELSE \E proceed \in {"", "y", "n"} :
                            IF ~is_batch /\ proceed = "n" THEN Return(0)
                            ELSE /\ pc' = "loop"
                                 /\ batch' = is_batch
                                 /\ encoder' = p.encoder
                                 /\ quality' = p.quality
                                 /\ suffix' = p.suffix
                                 /\ delete_original' = p.delete_original
                                 /\ mkv_files' = found
                                 /\ converted_count' = 0
                                 /\ failed_count' = 0
                                 /\ UNCHANGED <<run, files, idx, log, calls, probes,
                                                summary, exit_code, prev, level_vars, job_vars, ffmpeg, menu_vars>>

\* The file the loop reaches next, and its destination.
mkv_file == mkv_files[idx + 1]
output_file == OutputFile(mkv_file, suffix)

\* Loop body, "if output_file.exists(): continue".
SkipFile ==
  /\ pc = "loop"
  /\ idx < Len(mkv_files)
  /\ output_file \in files
  /\ idx' = idx + 1
  /\ log' = Append(log, "skipped")
  /\ calls' = <<>>
  /\ probes' = 0
  /\ UNCHANGED <<pc, run, files, prefs, mkv_files, converted_count, failed_count,
                 summary, exit_code, prev, level_vars, job_vars, ffmpeg, menu_vars>>

\* Mutant: a failed conversion is not counted but raised out of the loop.
AfterConvertAbortsOnFailure(ok, unlink_raises) ==
  IF ok
  THEN [converted |-> converted_count + 1, failed |-> failed_count,
        unlinked |-> delete_original /\ ~unlink_raises, escaped |-> FALSE]
  ELSE [converted |-> converted_count, failed |-> failed_count,
        unlinked |-> FALSE, escaped |-> TRUE]

\* Mutant: a deletion that raises turns the file into a failed one.
AfterConvertDeleteFailureFails(ok, unlink_raises) ==
  IF ok /\ ~(delete_original /\ unlink_raises)
  THEN [converted |-> converted_count + 1, failed |-> failed_count,
        unlinked |-> delete_original, escaped |-> FALSE]
  ELSE [converted |-> converted_count, failed |-> failed_count + 1,
        unlinked |-> FALSE, escaped |-> FALSE]

\* Mutant: a failed conversion counted as converted as well.
AfterConvertCountsFailureTwice(ok, unlink_raises) ==
  IF ok
  THEN [converted |-> converted_count + 1, failed |-> failed_count,
        unlinked |-> delete_original /\ ~unlink_raises, escaped |-> FALSE]
  ELSE [converted |-> converted_count + 1, failed |-> failed_count + 1,
        unlinked |-> FALSE, escaped |-> FALSE]

\* Mutant: the original is deleted whether or not the conversion succeeded.
AfterConvertDeletesAfterFailure(ok, unlink_raises) ==
  IF ok
  THEN [converted |-> converted_count + 1, failed |-> failed_count,
        unlinked |-> delete_original /\ ~unlink_raises, escaped |-> FALSE]
  ELSE [converted |-> converted_count, failed |-> failed_count + 1,
        unlinked |-> delete_original /\ ~unlink_raises, escaped |-> FALSE]

\* Loop body after the conversion returned: the counters, and the deletion of
\* the original under "try: unlink() except OSError". escaped says whether an
\* exception leaves the loop body.
AfterConvert(ok, unlink_raises) ==
  IF ok
  THEN [converted |-> converted_count + 1, failed |-> failed_count,
        unlinked |-> delete_original /\ ~unlink_raises, escaped |-> FALSE]
  ELSE [converted |-> converted_count, failed |-> failed_count + 1,
        unlinked |-> FALSE, escaped |-> FALSE]

\* Loop body for a file whose destination does not exist. The log entry is
\* the one convert_mkv_to_mp4 writes before it returns.
ConvertFile ==
  /\ pc = "loop"
  /\ idx < Len(mkv_files)
  /\ output_file \notin files
  /\ \E r \in convert_mkv_to_mp4(mkv_file, output_file, encoder, quality, 1) :
     \E unlink_raises \in BOOLEAN :
       LET a == AfterConvert(r.ok, unlink_raises)
       IN /\ converted_count' = a.converted
          /\ failed_count' = a.failed
          /\ files' = (files \cup (IF r.written THEN {output_file} ELSE {}))
                        \ (IF a.unlinked THEN {mkv_file} ELSE {})
          /\ pc' = IF a.escaped THEN "crashed" ELSE "loop"
          /\ exit_code' = IF a.escaped THEN 1 ELSE exit_code
          /\ log' = Append(log, IF r.ok THEN "converted" ELSE "failed")
          /\ calls' = r.calls
          /\ probes' = r.probes
          /\ idx' = idx + 1
  /\ UNCHANGED <<run, prefs, mkv_files, summary, prev, level_vars, job_vars, ffmpeg, menu_vars>>

\* Mutant: main returns 0 whatever failed.
ExitStatusAlwaysZero(failed) == 0

\* return 0 if failed_count == 0 else 1
ExitStatus(failed) == IF failed = 0 THEN 0 ELSE 1

\* The closing log lines: "Successfully converted", "Failed conversions".
Summary(converted, failed) == {<<"converted", converted>>, <<"failed", failed>>}

\* The loop is over: the summary and the exit status.
Finish ==
  /\ pc = "loop"
  /\ idx = Len(mkv_files)
  /\ summary' = Summary(converted_count, failed_count)
  /\ exit_code' = ExitStatus(failed_count)
  /\ pc' = "done"
  /\ UNCHANGED <<run, files, prefs, mkv_files, idx, converted_count, failed_count,
                 log, calls, probes, prev, level_vars, job_vars, ffmpeg, menu_vars>>

Next == Setup \/ SkipFile \/ ConvertFile \/ Finish

Spec == Init /\ [][Next]_vars

\* ------------------------------------------------ a second execution
\* main with --batch at the top of its loop, in a directory with sources.
InitLoop ==
  /\ pc = "loop"
  /\ batch = TRUE
  /\ \E adv \in Advertised(TRUE) :
       /\ encoder = BatchPreferences(adv).encoder
       /\ quality = BatchPreferences(adv).quality
       /\ suffix = BatchPreferences(adv).suffix
       /\ delete_original = BatchPreferences(adv).delete_original
  /\ files \in Directories
  /\ mkv_files \in find_mkv_files(files)
  /\ mkv_files # <<>>
  /\ idx = 0
  /\ converted_count = 0 /\ failed_count = 0
  /\ log = <<>> /\ calls = <<>> /\ probes = 0
  /\ summary = {} /\ exit_code = -1
  /\ run = 1
  /\ prev = NoPrev
  /\ NoLevel
  /\ NoJob
  /\ NoMenu
  /\ ffmpeg = "ok"

\* After main ended its loop it is executed again with the same arguments,
\* over the directory as the first execution left it, and gets to its loop
\* (or returns 0 when find_mkv_files finds nothing).
Rerun ==
  /\ pc = "done"
  /\ summary # {}
  /\ run < MaxRuns
  /\ run' = run + 1
  /\ prev' = [ran |-> TRUE, log |-> log, mkv_files |-> mkv_files]
  /\ \E found \in find_mkv_files(files) :
       /\ mkv_files' = found
       /\ pc' = IF found = <<>> THEN "done" ELSE "loop"
       /\ exit_code' = IF found = <<>> THEN 0 ELSE -1
  /\ idx' = 0
  /\ converted_count' = 0 /\ failed_count' = 0
  /\ log' = <<>> /\ calls' = <<>> /\ probes' = 0
  /\ summary' = {}
  /\ UNCHANGED <<files, prefs, level_vars, job_vars, ffmpeg, menu_vars>>

NextRerun == SkipFile \/ ConvertFile \/ Finish \/ Rerun

\* One execution from the top of the loop. The loop is sequential code: a
\* step that can be taken is taken.
NextLoop == SkipFile \/ ConvertFile \/ Finish

FairSpec == InitLoop /\ [][NextLoop]_vars /\ WF_vars(NextLoop)

SpecRerun == InitLoop /\ [][NextRerun]_vars

\* --------------------------------------- the level selector on its own
Widths == {320, 352, 640, 720, 1280, 1920, 2560, 3840, 7680}

Heights == {240, 288, 432, 480, 576, 720, 1080, 1440, 2160, 4320}

\* The pixel counts at which the level changes, and the next ones.
Boundaries ==
  { b + d : b \in {Level13MaxPixels, Level30MaxPixels, Level31MaxPixels,
                   Level40MaxPixels, Level51MaxPixels},
            d \in {0, 1} }

\* get_video_resolution: both numbers or (None, None).
Resolutions == (Widths \X Heights) \cup ({1} \X Boundaries) \cup {<<None, None>>}

InitLevel ==
  /\ pc = "level"
  /\ \E r \in Resolutions : width = r[1] /\ height = r[2]
  /\ h264_level = ""
  /\ batch = FALSE /\ encoder = "" /\ quality = "" /\ suffix = ""
  /\ delete_original = FALSE
  /\ Fresh
  /\ run = 1
  /\ prev = NoPrev
  /\ files = {}
  /\ NoJob
  /\ NoMenu
  /\ ffmpeg = "ok"

\* h264_level = get_appropriate_h264_level(width, height)
SelectLevel ==
  /\ pc = "level"
  /\ h264_level' = get_appropriate_h264_level(width, height)
  /\ pc' = "leveled"
  /\ UNCHANGED <<run, files, prefs, mkv_files, idx, converted_count, failed_count,
                 log, calls, probes, summary, exit_code, prev, width, height,
                 job_vars, ffmpeg, menu_vars>>

SpecLevel == InitLevel /\ [][SelectLevel]_vars

\* ------------------------- convert_mkv_to_mp4, statement by statement
\* Mutant: an output without audio streams makes the call return False.
VerifyOutputRequiresAudio(p) ==
  LET streams == get_audio_streams(p)
  IN [ok |-> streams # <<>>, output_audio_streams |-> streams, warned |-> streams = <<>>]

\* Lines 259-268, after ffmpeg exited 0: the audio streams of the output are
\* queried, a warning is logged when there are none, and True is returned.
VerifyOutput(p) ==
  LET streams == get_audio_streams(p)
  IN [ok |-> TRUE, output_audio_streams |-> streams, warned |-> streams = <<>>]

\* One call of convert_mkv_to_mp4(input_file, output_file, encoder, quality)
\* from the loop of main, on the only file of a directory, with what ffprobe
\* gives for that file; an ffprobe that cannot be started gives nothing.
InitJob ==
  /\ pc = "job"
  /\ batch = FALSE /\ suffix = default_suffix /\ delete_original = FALSE
  /\ encoder \in Encoders /\ quality \in Qualities
  /\ \E f \in { c \in Candidates : c.ext = "mkv" } : mkv_files = <<f>> /\ files = {f}
  /\ idx = 0 /\ converted_count = 0 /\ failed_count = 0
  /\ log = <<>> /\ calls = <<>> /\ probes = 0
  /\ summary = {} /\ exit_code = -1
  /\ run = 1
  /\ prev = NoPrev
  /\ NoLevel
  /\ \/ /\ ffprobe_found = TRUE
        /\ pix_probe \in ProbeRuns(PixFmtOutputs, "")
        /\ res_probe \in ProbeRuns(ResolutionOutputs, <<>>)
        /\ audio_probe \in ProbeRuns(AudioOutputs, <<>>)
     \/ /\ ffprobe_found = FALSE
        /\ pix_probe = [exit |-> 1, stdout |-> ""]
        /\ res_probe = [exit |-> 1, stdout |-> <<>>]
        /\ audio_probe = [exit |-> 1, stdout |-> <<>>]
  /\ attempt = 1
  /\ is_10bit = FALSE /\ pix_fmt = "" /\ audio_streams = <<>> /\ cmd = <<>>
  /\ NoVerify
  /\ ffmpeg = "ok"
  /\ NoMenu

\* Lines 139-242: the three queries and the command line.  subprocess.run
\* raises FileNotFoundError when ffprobe cannot be started; the queries catch
\* CalledProcessError (and ValueError) only, and line 139 is outside the try
\* of line 244, so the exception leaves convert_mkv_to_mp4.
ProbeAndBuild ==
  /\ pc = "job"
  /\ IF ~ffprobe_found
     THEN /\ pc' = "raised"
          /\ UNCHANGED <<probes, level_vars, is_10bit, pix_fmt, audio_streams, cmd>>
     ELSE LET depth == get_video_bit_depth(pix_probe)
              resolution == get_video_resolution(res_probe)
              level == get_appropriate_h264_level(resolution[1], resolution[2])
              streams == get_audio_streams(audio_probe)
          IN /\ is_10bit' = depth.is_10bit
             /\ pix_fmt' = depth.pix_fmt
             /\ width' = resolution[1]
             /\ height' = resolution[2]
             /\ h264_level' = level
             /\ audio_streams' = streams
             /\ cmd' = Options(encoder, quality, depth.is_10bit, level, streams)
             /\ probes' = probes + 3
             /\ pc' = "built"
  /\ UNCHANGED <<run, files, prefs, mkv_files, idx, converted_count, failed_count,
                 log, calls, summary, exit_code, prev, probe_env, attempt, ffmpeg,
                 menu_vars, verify_vars>>

\* Lines 244-295: the command runs; the call returns True, returns False, or
\* calls itself with the arguments of the fallback.
RunCommand ==
  /\ pc = "built"
  /\ \E o \in RunFfmpeg :
       LET command == BuildCommand(mkv_file, output_file, encoder, quality)
           fb == FallbackJob(mkv_file, output_file, quality)
       IN /\ calls' = Append(calls, [encoder |-> encoder, quality |-> quality,
                                     input |-> mkv_file, output |-> output_file,
                                     exit |-> o.exit, stderr |-> o.stderr])
          /\ files' = files \cup (IF o.written THEN {output_file} ELSE {})
          /\ IF o.exit = 0
             THEN \E p \in ProbeRuns(AudioOutputs, <<>>) :
                    LET v == VerifyOutput(p)
                    IN /\ out_probe' = p
                       /\ output_audio_streams' = v.output_audio_streams
                       /\ warned' = v.warned
                       /\ pc' = IF v.ok THEN "returned True" ELSE "returned False"
                       /\ probes' = probes + 1
                       /\ UNCHANGED <<encoder, quality, mkv_files, attempt>>
             ELSE IF ShouldFallback(encoder, error_msg(o.stderr, command))
                     /\ attempt < MaxAttempts
                  THEN /\ pc' = "job"
                       /\ encoder' = fb.encoder
                       /\ quality' = fb.quality
                       /\ mkv_files' = <<fb.input>>
                       /\ attempt' = attempt + 1
                       /\ UNCHANGED <<probes, verify_vars>>
                  ELSE /\ pc' = "returned False"
                       /\ UNCHANGED <<probes, encoder, quality, mkv_files, attempt,
                                      verify_vars>>
  /\ UNCHANGED <<run, batch, suffix, delete_original, idx, converted_count,
                 failed_count, log, summary, exit_code, prev, level_vars, probe_env,
                 is_10bit, pix_fmt, audio_streams, cmd, ffmpeg, menu_vars>>

NextJob == ProbeAndBuild \/ RunCommand

SpecJob == InitJob /\ [][NextJob]_vars

\* ------------------------------------- main up to the preferences, in detail
\* main is started with or without the directory argument and with or without
\* --batch; ffmpeg lists some of the two encoders; the user is ready to type.
InitPrefs ==
  /\ pc = "args"
  /\ batch \in BOOLEAN
  /\ has_input_dir \in BOOLEAN
  /\ encoders_out \in Advertised(TRUE)
  /\ typed \in TypedAnswers(check_gpu_encoding(encoders_out).nvenc_available,
                             check_gpu_encoding(encoders_out).av1_nvenc_available)
  /\ menu = {} /\ prompts = <<>>
  /\ encoder = "" /\ quality = "" /\ suffix = "" /\ delete_original = FALSE
  /\ Fresh
  /\ run = 1
  /\ prev = NoPrev
  /\ files \in { {}, {[stem |-> <<"a">>, ext |-> "mkv"]} }
  /\ NoLevel
  /\ NoJob
  /\ ffmpeg = "ok"

\* Lines 420-442: the directory, from the command line or a prompt, and the
\* preferences, fixed with --batch and asked for without it.
Preferences ==
  /\ pc = "args"
  /\ LET gpu == check_gpu_encoding(encoders_out)
         asked == IF has_input_dir THEN <<>> ELSE <<"directory">>
     IN \E dir_exists \in BOOLEAN :
          IF ~dir_exists
          THEN /\ pc' = "done"
               /\ exit_code' = 1
               /\ prompts' = asked
               /\ UNCHANGED <<encoder, quality, suffix, delete_original, menu>>
          ELSE /\ pc' = "chosen"
               /\ UNCHANGED exit_code
               /\ IF batch
                  THEN /\ encoder' = BatchPreferences(encoders_out).encoder
                       /\ quality' = BatchPreferences(encoders_out).quality
                       /\ suffix' = BatchPreferences(encoders_out).suffix
                       /\ delete_original' = BatchPreferences(encoders_out).delete_original
                       /\ prompts' = asked
                       /\ UNCHANGED menu
                  ELSE \E p \in get_user_preferences(encoders_out) :
                         /\ p.encoder = MenuEncoder(typed, gpu.nvenc_available,
                                                    gpu.av1_nvenc_available)
                         /\ encoder' = p.encoder
                         /\ quality' = p.quality
                         /\ suffix' = p.suffix
                         /\ delete_original' = p.delete_original
                         /\ menu' = MenuShown(gpu.nvenc_available, gpu.av1_nvenc_available)
                         /\ prompts' = asked \o PreferencePrompts(typed, gpu.nvenc_available,
                                                                  gpu.av1_nvenc_available)
  /\ UNCHANGED <<run, files, batch, mkv_files, idx, converted_count, failed_count,
                 log, calls, probes, summary, prev, level_vars, job_vars, ffmpeg,
                 has_input_dir, encoders_out, typed>>

SpecPrefs == InitPrefs /\ [][Preferences]_vars

\* ---------------------------------------------------------------- claims
Markers == Range(nvenc_failures)

HasMarker(text) == \E m \in Markers : m \in text

\* The counters main keeps, by name.
Counters == [converted_count |-> converted_count, failed_count |-> failed_count]

CountOf(entry) == Cardinality({ i \in DOMAIN log : log[i] = entry })

\* The loop ran to its end and main returned.
LoopEnded == pc = "done" /\ summary # {}

\* C1, as claimed: when the loop reaches a file whose destination exists, the
\* step makes no ffprobe and no ffmpeg invocation, leaves converted_count and
\* failed_count alone, and increments a skip counter.
C1_SkipIncrementsSkipCounter ==
  [][ (pc = "loop" /\ idx < Len(mkv_files) /\ output_file \in files)
      => /\ probes' = 0
         /\ calls' = <<>>
         /\ converted_count' = converted_count
         /\ failed_count' = failed_count
         /\ \E k \in DOMAIN Counters \ {"converted_count", "failed_count"} :
              Counters'[k] = Counters[k] + 1 ]_vars

\* C2, as claimed: a first attempt on a hardware encoder that exits non-zero
\* is followed by a software attempt if and only if the stderr captured from
\* ffmpeg holds one of the six markers; otherwise there is no further
\* invocation and the file failed.
C2_FallbackIffMarkerInDiagnostic ==
  (idx > 0 /\ calls # <<>> /\ StartsWithNvenc(calls[1].encoder) /\ calls[1].exit # 0)
    => /\ (Len(calls) >= 2 /\ calls[2].encoder = "cpu") <=> HasMarker(calls[1].stderr)
       /\ ~HasMarker(calls[1].stderr) => (Len(calls) = 1 /\ log[idx] = "failed")

\* C3: for the file reached last (so for every file, each being the last one
\* in turn) ffmpeg is invoked at most twice; a second invocation is the
\* software fallback of a hardware attempt; when it fails, whatever its
\* stderr, nothing follows and the file failed.
C3_AtMostOneFallback ==
  /\ Len(calls) <= 2
  /\ Len(calls) = 2 =>
       /\ StartsWithNvenc(calls[1].encoder)
       /\ calls[1].exit # 0
       /\ calls[2].encoder = "cpu"
       /\ calls[2].exit # 0 => log[idx] = "failed"

C3_Witness ==
  /\ idx > 0 /\ Len(calls) = 2
  /\ calls[2].exit # 0 /\ HasMarker(calls[2].stderr)
  /\ log[idx] = "failed"

\* C4, as claimed: at the end of a batch run the tallies are converted = the
\* files whose final attempt succeeded, failed = those whose final attempt
\* failed, skipped = those whose destination existed.
C4_FinalTallies ==
  LoopEnded =>
    summary = { <<"converted", CountOf("converted")>>,
                <<"failed", CountOf("failed")>>,
                <<"skipped", CountOf("skipped")>> }

\* C5: when the loop ran to its end, the exit status is 0 if every file
\* discovered was converted or skipped, and non-zero if some file failed.
C5_ExitStatus ==
  LoopEnded =>
    /\ Len(log) = Len(mkv_files)
    /\ (\A i \in DOMAIN log : log[i] \in {"converted", "skipped"}) => exit_code = 0
    /\ (\E i \in DOMAIN log : log[i] = "failed") => exit_code > 0

C5_Witness ==
  /\ LoopEnded
  /\ exit_code = 1
  /\ \E i, j \in DOMAIN log : log[i] = "failed" /\ log[j] = "converted"

C7_RerunTallies ==
  (run > 1 /\ LoopEnded /\ prev.ran /\ ~delete_original
     /\ \A i \in DOMAIN prev.log : prev.log[i] = "converted")
    => /\ \A i \in DOMAIN log : log[i] = "skipped"
       /\ summary = { <<"converted", 0>>, <<"failed", 0>>,
                      <<"skipped", Len(mkv_files)>> }
       /\ exit_code = 0

\* C8: with delete-original on, a step that converts a file and leaves its
\* source in place (the deletion raised) counts the file as converted, not as
\* failed, and leaves main in its loop at the next file; main never ends on
\* an exception and ends its loop only after every file.
C8_DeleteFailureKeepsConverted ==
  /\ [][ (delete_original /\ pc = "loop" /\ idx' = idx + 1
            /\ log'[idx'] = "converted" /\ mkv_files[idx'] \in files')
         => /\ converted_count' = converted_count + 1
            /\ failed_count' = failed_count
            /\ pc' = "loop" ]_vars
  /\ [](pc # "crashed")
  /\ [](LoopEnded => Len(log) = Len(mkv_files))

C8_Witness ==
  /\ delete_original
  /\ idx >= 2
  /\ log[1] = "converted"
  /\ mkv_files[1] \in files
  /\ converted_count >= 1

\* C9: a step removes a source file from the directory only if delete-original
\* is on and the step is the successful conversion of that very file; a file
\* that failed or was skipped stays.
C9_DeleteOnlyAfterSuccess ==
  [][ \A f \in Candidates :
        (f \in files /\ f \notin files')
          => /\ delete_original
             /\ pc = "loop" /\ idx' = idx + 1
             /\ f = mkv_files[idx']
             /\ log'[idx'] = "converted" ]_vars

C9_Witness ==
  \E i, j \in 1..idx :
    /\ log[i] = "converted" /\ mkv_files[i] \notin files
    /\ log[j] = "failed" /\ mkv_files[j] \in files

ValuesIn(command, flag) ==
  { command[i + 1] : i \in { j \in 1..(Len(command) - 1) : command[j] = flag } }

ValuesOf(flag) == ValuesIn(cmd, flag)

\* How many times an argument occurs on the command line.
Occurrences(arg) == Cardinality({ i \in DOMAIN cmd : cmd[i] = arg })

\* The command line of the current call has been built.
CommandBuilt == pc \in {"built", "returned True", "returned False"}

\* C11: for a source probed as 10-bit, whatever the quality, the command of
\* the hardware H.264 encoder and of the software H.264 encoder sets the pixel
\* format to yuv420p and to nothing else, and the command of the hardware AV1
\* encoder does not set it to yuv420p.
C11_TenBitPixelFormat ==
  (CommandBuilt /\ is_10bit) =>
    /\ encoder \in {"nvenc_h264", "cpu"} => ValuesOf("-pix_fmt") = {"yuv420p"}
    /\ encoder = "nvenc_av1" => "yuv420p" \notin ValuesOf("-pix_fmt")

\* A 10-bit source whose hardware AV1 command kept 10 bits and failed, and the
\* software command built for it then.
C11_Witness ==
  /\ pc = "built" /\ is_10bit /\ attempt = 2 /\ encoder = "cpu"
  /\ calls[1].encoder = "nvenc_av1"
  /\ ValuesOf("-pix_fmt") = {"yuv420p"}

\* The first ffmpeg invocation for the file failed in the way that makes
\* convert_mkv_to_mp4 call itself.
FallbackTriggered ==
  /\ calls # <<>>
  /\ calls[1].exit # 0
  /\ ShouldFallback(calls[1].encoder,
                    error_msg(calls[1].stderr,
                              BuildCommand(calls[1].input, calls[1].output,
                                           calls[1].encoder, calls[1].quality)))

\* C12: when the failure of a hardware job (nvenc_h264 or nvenc_av1) triggers
\* the fallback, exactly one more ffmpeg invocation follows, with the software
\* encoder and the source, destination and quality of the failed job; and a
\* second invocation is never made otherwise.
C12_FallbackJob ==
  /\ FallbackTriggered =>
       /\ StartsWithNvenc(calls[1].encoder)
       /\ Len(calls) = 2
       /\ calls[2].encoder = "cpu"
       /\ calls[2].input = calls[1].input
       /\ calls[2].output = calls[1].output
       /\ calls[2].quality = calls[1].quality
  /\ Len(calls) > 1 => FallbackTriggered

\* A failed hardware AV1 job of quality high on "a.MKV", re-run in software.
C12_Witness ==
  /\ Len(calls) = 2
  /\ calls[1].encoder = "nvenc_av1" /\ calls[1].quality = "high"
  /\ calls[1].input = [stem |-> <<"a">>, ext |-> "MKV"]
  /\ calls[2].encoder = "cpu" /\ calls[2].quality = "high"
  /\ calls[2].input = [stem |-> <<"a">>, ext |-> "MKV"]

\* C13: when ffmpeg is not installed or "ffmpeg -version" fails, main never
\* enters its loop and returns a non-zero status: no file is probed, no
\* ffmpeg command is run on a file and the directory stays as it was.
C13_NoEngineNoWork ==
  /\ [](ffmpeg \in {"missing", "fails"} =>
          /\ pc \in {"start", "done"}
          /\ pc = "done" => exit_code > 0
          /\ idx = 0 /\ log = <<>> /\ calls = <<>> /\ probes = 0)
  /\ [][(ffmpeg \in {"missing", "fails"}) => (files' = files)]_vars

\* main has returned 1 without ffmpeg, on a directory holding two sources.
C13_Witness ==
  /\ ffmpeg = "missing" /\ pc = "done" /\ exit_code = 1
  /\ Cardinality({ f \in files : Lower(f.ext) = "mkv" }) = 2

\* The output of the resolution query is not two numbers.
MalformedResolution ==
  ~(Len(res_probe.stdout) = 2 /\ res_probe.stdout[1].digits /\ res_probe.stdout[2].digits)

\* C14: no exception leaves convert_mkv_to_mp4 because of a query, and in the
\* command-building call each query that could not start ffprobe, got a
\* non-zero exit or (resolution) got malformed output has given its default,
\* (False, "unknown"), (None, None) or [], whatever the other two gave.
C14_ProbesDegrade ==
  /\ pc # "raised"
  /\ CommandBuilt =>
       /\ (~ffprobe_found \/ pix_probe.exit # 0) => (~is_10bit /\ pix_fmt = "unknown")
       /\ (~ffprobe_found \/ res_probe.exit # 0 \/ MalformedResolution) =>
            (width = None /\ height = None)
       /\ (~ffprobe_found \/ audio_probe.exit # 0) => audio_streams = <<>>

\* C15: every command, of any encoder and of a first or a fallback attempt,
\* holds two -map options: 0:v:0 and one for the audio, which is 0:a:0 when
\* get_audio_streams returned at least one stream and 0:a? when it returned
\* none.
C15_StreamMapping ==
  CommandBuilt =>
    /\ Occurrences("-map") = 2
    /\ "0:v:0" \in ValuesOf("-map")
    /\ ValuesOf("-map") \ {"0:v:0"} =
         (IF audio_streams # <<>> THEN {"0:a:0"} ELSE {"0:a?"})

\* The software command of a fallback attempt on a source without audio.
C15_Witness ==
  /\ pc = "built" /\ attempt = 2 /\ encoder = "cpu"
  /\ audio_probe = [exit |-> 0, stdout |-> <<>>]
  /\ ValuesOf("-map") = {"0:v:0", "0:a?"}

\* What a command line sets for the audio: codec, bitrate, channels, rate.
AudioSettings(command) ==
  [codec |-> ValuesIn(command, "-c:a"), bitrate |-> ValuesIn(command, "-b:a"),
   channels |-> ValuesIn(command, "-ac"), rate |-> ValuesIn(command, "-ar")]

\* What the three queries can return for a source.
ProbedSources ==
  { [is_10bit |-> b, level |-> l, audio_streams |-> get_audio_streams(a)] :
    b \in BOOLEAN, l \in {"1.3", "3.0", "3.1", "4.0", "5.1", "5.2"},
    a \in ProbeRuns(AudioOutputs, <<>>) }

\* C16: every command, whatever the encoder, the quality, the attempt and the
\* source, sets the audio to aac, 192k, 2 channels, 48000 Hz and to nothing
\* else; the command of the same job on a source probed with any other audio
\* streams, bit depth or resolution sets the same four values.
C16_AudioSettingsFixed ==
  /\ CommandBuilt =>
       AudioSettings(cmd) =
         [codec |-> {"aac"}, bitrate |-> {"192k"}, channels |-> {"2"}, rate |-> {"48000"}]
  /\ pc = "built" =>
       \A src \in ProbedSources :
         AudioSettings(Options(encoder, quality, src.is_10bit, src.level,
                               src.audio_streams)) = AudioSettings(cmd)

\* The hardware AV1 command for a 10-bit 2160p source with 5.1 audio.
C16_Witness ==
  /\ pc = "built" /\ encoder = "nvenc_av1" /\ is_10bit /\ h264_level = "5.1"
  /\ Len(audio_streams) = 2
  /\ AudioSettings(cmd).codec = {"aac"} /\ AudioSettings(cmd).channels = {"2"}

\* The entry of a row (fast, medium, high) for the quality of the call.
Tier(fast, medium, high) ==
  CASE quality = "fast" -> fast
    [] quality = "medium" -> medium
    [] quality = "high" -> high

Supported ==
  {"cpu"} \cup (IF "h264_nvenc" \in encoders_out THEN {"nvenc_h264"} ELSE {})
         \cup (IF "av1_nvenc" \in encoders_out THEN {"nvenc_av1"} ELSE {})

\* C18: with --batch main makes no input() call and takes hardware H.264
\* when ffmpeg lists it and software H.264 otherwise, quality medium, suffix
\* "_converted" and delete_original False.
C18_BatchDefaults ==
  (batch /\ pc \in {"chosen", "done"}) =>
    /\ prompts = <<>>
    /\ pc = "chosen" =>
         /\ encoder = (IF "h264_nvenc" \in encoders_out THEN "nvenc_h264" ELSE "cpu")
         /\ quality = "medium"
         /\ suffix = "_converted"
         /\ delete_original = FALSE

\* C19: without --batch, whatever the user types and whatever ffmpeg lists,
\* the menu shows supported encoders only, the encoder returned is a
\* supported one, and typing the number shown for an option selects that
\* option at once.
C19_MenuOffersSupported ==
  (~batch /\ pc = "chosen") =>
    /\ \A option \in menu : option.encoder \in Supported
    /\ encoder \in Supported
    /\ \A option \in menu :
         typed[1] = option.number =>
           /\ encoder = option.encoder
           /\ Cardinality({ i \in DOMAIN prompts :
                             prompts[i] \in {"encoding", "continue"} }) = 1

\* C20: the destination of a file whose conversion has just failed does not
\* exist, and a later execution over the directory skips no file whose
\* conversion failed in the execution before.
C20_FailedLeavesNoDestination ==
  /\ (idx > 0 /\ log[idx] = "failed") =>
       OutputFile(mkv_files[idx], suffix) \notin files
  /\ prev.ran =>
       \A i \in 1..idx :
         log[i] = "skipped" =>
           \A j \in DOMAIN prev.mkv_files :
             prev.mkv_files[j] = mkv_files[i] => prev.log[j] # "failed"

\* The files reached so far for which ffmpeg was run: the loop did not skip
\* them.
Encoded == { i \in 1..idx : log[i] # "skipped" }

\* C21: in one execution of main no two different files of mkv_files have
\* ffmpeg run on the same destination: of two sources with one destination
\* only the first reached is encoded.
C21_OneEncodePerDestination ==
  \A i, j \in Encoded :
    (i # j /\ mkv_files[i] # mkv_files[j]) =>
      OutputFile(mkv_files[i], suffix) # OutputFile(mkv_files[j], suffix)

\* The properties of the source the command line is built from.
SourceProperties == <<is_10bit, pix_fmt, width, height, audio_streams>>

\* C22: the source of a file is queried once, three ffprobe runs whatever
\* the number of attempts (a fourth run is the query of the output after a
\* success), and the command of the fallback attempt is built from the
\* values the first attempt had.
C22_ProbedOncePerFile ==
  /\ [](CommandBuilt => probes \in {3, 4})
  /\ [][(pc = "job" /\ attempt > 1 /\ pc' = "built") =>
          SourceProperties' = SourceProperties]_vars

\* The ffprobe query of the output file found no audio stream, or failed.
NoOutputAudio ==
  \/ out_probe.exit # 0
  \/ \A i \in DOMAIN out_probe.stdout : out_probe.stdout[i] = ""

\* C23: the step in which ffmpeg exits 0 queries the output file once and
\* ends the call with True, with no further attempt, whatever the query
\* gives; when it finds no audio stream or fails, a warning is logged and
\* nothing else changes.
C23_ReprobeNeverFails ==
  /\ [][(pc = "built" /\ calls' # calls /\ calls'[Len(calls')].exit = 0) =>
          /\ probes' = probes + 1
          /\ pc' = "returned True"
          /\ attempt' = attempt /\ encoder' = encoder
          /\ warned' = NoOutputAudio']_vars
  /\ [](pc = "returned True" => (calls[Len(calls)].exit = 0 /\ Len(calls) = attempt))

\* A fallback attempt that succeeded, whose output ffprobe could not read.
C23_Witness ==
  /\ pc = "returned True" /\ attempt = 2
  /\ out_probe.exit # 0 /\ warned

\* The resolution query failed or gave something that is not two numbers.
ResolutionProbeFailed == res_probe.exit # 0 \/ MalformedResolution

\* C24: when the resolution query fails, width and height are None, the
\* level is "4.0", which is what the H.264 commands carry, and the call goes
\* on to build its command and run ffmpeg: it returns only after an ffmpeg
\* run.  The selector gives "4.0" also when only one of the two is None.
C24_UnknownResolution ==
  /\ [](\A w \in {None, 1920}, h \in {None, 1080} :
          (w = None \/ h = None) => get_appropriate_h264_level(w, h) = "4.0")
  /\ []((CommandBuilt /\ ResolutionProbeFailed) =>
          /\ width = None /\ height = None
          /\ h264_level = "4.0"
          /\ encoder \in {"nvenc_h264", "cpu"} => ValuesOf("-level") = {"4.0"}
          /\ pc \in {"returned True", "returned False"} => Len(calls) = attempt)
  /\ [][(pc = "job" /\ ffprobe_found /\ ResolutionProbeFailed) => pc' = "built"]_vars

\* A source whose resolution query exited non-zero, converted all the same.
C24_Witness ==
  /\ pc = "returned True" /\ res_probe.exit # 0
  /\ width = None /\ h264_level = "4.0" /\ ValuesOf("-level") = {"4.0"}

\* C25: in the loop, after each file, converted_count + failed_count + the
\* number of files skipped so far is the number of files reached so far; a
\* file adds 1 to at most one of the two counters and none of them ever
\* decreases; at the end converted_count + failed_count is at most the
\* number of files found.
C25_CountersAccountForFiles ==
  /\ [](pc \in {"loop", "done"} =>
          /\ converted_count + failed_count + CountOf("skipped") = idx
          /\ idx = Len(log))
  /\ [][pc = "loop" =>
          /\ converted_count' >= converted_count
          /\ failed_count' >= failed_count
          /\ idx' = idx + 1 =>
               (converted_count' - converted_count) + (failed_count' - failed_count)
                 \in {0, 1}]_vars
  /\ [](LoopEnded => converted_count + failed_count <= Len(mkv_files))

\* The loop has ended on two files, one skipped and one converted.
C25_Witness ==
  /\ LoopEnded /\ Len(mkv_files) = 2
  /\ CountOf("skipped") = 1 /\ converted_count = 1 /\ failed_count = 0
====
